---- MODULE Spec2Model ----
(***************************************************************************)
(* Model of the ActiveShapeStore of PlanarAlly                             *)
(* (client/src/game/ui/ActiveShapeStore.ts): the reactive facade in front  *)
(* of the selected Shape.                                                  *)
(*                                                                         *)
(* The store's private fields are the variables.  Every @Mutation is a     *)
(* function from the store's fields and the payload to an outcome: the     *)
(* fields after the mutation, the calls it made on core shapes (the        *)
(* gateway) and whether it ended in a TypeError.  One action per mutation  *)
(* applies that outcome to the variables.                                  *)
(***************************************************************************)
EXTENDS Integers, Sequences, FiniteSets, TLC

\* ---------------------------------------------------------------- bounds
\* most incremental mutations between two selections
MaxOps == 1

\* ------------------------------------------------------------- the world
\* `null` of the private fields, `undefined` of the lookups
NULL == "null"

\* The shapes of the scene: B is a variant of the composite P; A is a shape
\* that is neither.
Shapes == {"A", "B", "P"}

\* the shapes the viewer selects
Selectable == {"B", "P"}

\* SyncTo: the direction tag; SyncTo.UI marks an echo coming from the core.
SyncTo == {"SERVER", "SHAPE", "UI"}

\* gameStore.username: the viewer
username == "u1"

Users == {"u1", "u2"}

\* gameStore.IS_DM, gameStore.FAKE_PLAYER, gameStore.activeTokens: a player,
\* the DM, and a DM who plays a fake player holding the token P
Viewers ==
    { [IS_DM |-> FALSE, FAKE_PLAYER |-> FALSE, activeTokens |-> {}],
      [IS_DM |-> TRUE, FAKE_PLAYER |-> FALSE, activeTokens |-> {}],
      [IS_DM |-> FALSE, FAKE_PLAYER |-> TRUE, activeTokens |-> {"P"}] }

\* layerManager.getCompositeParent(uuid): the parent's uuid, NULL for undefined
getCompositeParent(s) == IF s = "B" THEN "P" ELSE NULL

\* shape.defaultAccess of the core shapes
ShapeDefaultAccess(s) ==
    IF s = "B"
    THEN [edit |-> FALSE, movement |-> FALSE, vision |-> FALSE]
    ELSE [edit |-> FALSE, movement |-> TRUE, vision |-> TRUE]

\* shape.owners of the core shapes (no user twice)
ShapeOwners(s) ==
    IF s = "B"
    THEN << [user |-> "u1", access |-> [edit |-> TRUE, movement |-> TRUE, vision |-> TRUE]] >>
    ELSE << [user |-> "u2", access |-> [edit |-> TRUE, movement |-> TRUE, vision |-> TRUE]] >>

\* shape.getTrackers(false) of the core shapes
ShapeTrackers(s) ==
    IF s = "P" THEN << [uuid |-> "PT1", value |-> 0] >> ELSE << >>

\* shape.getAuras(false) of the core shapes
ShapeAuras(s) ==
    IF s = "P" THEN << [uuid |-> "PA1", value |-> 0] >>
    ELSE IF s = "B" THEN << [uuid |-> "BA1", value |-> 0] >>
    ELSE << >>

\* uuidv4() values handed out to placeholders, in the order they are tried
FreshIds == << "N1", "N2", "N3", "N4", "N5", "N6", "N7", "N8" >>

\* ---------------------------------------------------------------- inputs
Accesses == [edit : BOOLEAN, movement : BOOLEAN, vision : BOOLEAN]

\* Access descriptors of owner payloads; the second one is partial, as the
\* ping tool's { edit: true }.
OwnerAccesses ==
    { [edit |-> FALSE, movement |-> TRUE, vision |-> TRUE],
      [edit |-> TRUE] }

OwnerPayloads == { [user |-> u, access |-> a] : u \in Users, a \in OwnerAccesses }

\* Partial<Tracker> / Partial<Aura>
Deltas == { [value |-> 0], [value |-> 1] }

\* the tracker and the aura that requests push
PushTrackers == { [uuid |-> "T2", value |-> 0] }
PushAuras == { [uuid |-> "A2", value |-> 0] }

VARIABLES
    uuid,                  \* _uuid
    parentUuid,            \* _parentUuid
    lastUuid,              \* _lastUuid
    access,                \* _access
    owners,                \* _owners
    trackers,              \* _trackers
    firstRealTrackerIndex,
    auras,                 \* _auras
    firstRealAuraIndex,
    IS_DM,                 \* gameStore.IS_DM
    FAKE_PLAYER,           \* gameStore.FAKE_PLAYER
    activeTokens,          \* gameStore.activeTokens
    UUIDMap,               \* the keys of layerManager.UUIDMap
    calls,                 \* the calls the last step made on core shapes
    error,                 \* the last step ended in a TypeError
    ops,                   \* incremental mutations since the last select / clear
    pending,               \* the echoes the gateway has still to deliver to the store
    forwarded,             \* calls on core shapes since the last request of the UI
    delivered,             \* echoes delivered since the last request of the UI
    held,                  \* which objects of the mirror the core holds a reference to
    domain                 \* the selected shape's own data as the core changes it

store == << uuid, parentUuid, lastUuid, access, owners, trackers,
            firstRealTrackerIndex, auras, firstRealAuraIndex >>
env == << IS_DM, FAKE_PLAYER, activeTokens, UUIDMap >>
gateway == << pending, forwarded, delivered >>
vars == << store, env, calls, error, ops, gateway, held, domain >>

\* the store's fields as one value
State ==
    [uuid |-> uuid, parentUuid |-> parentUuid, lastUuid |-> lastUuid,
     access |-> access, owners |-> owners,
     trackers |-> trackers, firstRealTrackerIndex |-> firstRealTrackerIndex,
     auras |-> auras, firstRealAuraIndex |-> firstRealAuraIndex]

\* ------------------------------------------------------- pure functions
\* Object.assign(target, source), { ...target, ...source }: source's fields
\* override target's
ObjectAssign(target, source) ==
    [f \in (DOMAIN target) \cup (DOMAIN source) |->
        IF f \in DOMAIN source THEN source[f] ELSE target[f]]

\* Array.prototype.splice(index, 0, item), index counted from 0; a negative
\* index counts from the end and is clamped to 0
SpliceIn(list, index, item) ==
    LET n == Len(list)
        i0 == IF index < 0 THEN (IF n + index < 0 THEN 0 ELSE n + index)
              ELSE (IF index > n THEN n ELSE index)
    IN SubSeq(list, 1, i0) \o << item >> \o SubSeq(list, i0 + 1, n)

\* Array.prototype.splice(index, 1), index counted from 0: the list left
SpliceOut(list, index) ==
    SubSeq(list, 1, index) \o SubSeq(list, index + 2, Len(list))

\* Array.prototype.findIndex(t => t.uuid === id), from 0, -1 when absent
FindIndex(list, id) ==
    IF \E i \in 1..Len(list) : list[i].uuid = id
    THEN (CHOOSE i \in 1..Len(list) :
            /\ list[i].uuid = id
            /\ \A j \in 1..(i - 1) : list[j].uuid # id) - 1
    ELSE -1

\* Array.prototype.findIndex(o => o.user === user), from 0, -1 when absent
OwnerIndex(list, user) ==
    IF \E i \in 1..Len(list) : list[i].user = user
    THEN (CHOOSE i \in 1..Len(list) :
            /\ list[i].user = user
            /\ \A j \in 1..(i - 1) : list[j].user # user) - 1
    ELSE -1

toUiTrackers(list, shape) ==
    [i \in 1..Len(list) |-> ObjectAssign([shape |-> shape, temporary |-> FALSE], list[i])]

toUiAuras(list, shape) ==
    [i \in 1..Len(list) |-> ObjectAssign([shape |-> shape, temporary |-> FALSE], list[i])]

\* the first uuidv4() value that no entry of the list carries
FreshId(list) ==
    LET free == { i \in 1..Len(FreshIds) :
                    \A j \in 1..Len(list) : list[j].uuid # FreshIds[i] }
    IN FreshIds[CHOOSE i \in free : \A k \in free : i <= k]

\* createEmptyTracker(shape), for a list that holds `list`
createEmptyTracker(list, shape) ==
    [uuid |-> FreshId(list), shape |-> shape, temporary |-> TRUE, value |-> 0]

\* createEmptyAura(shape), for a list that holds `list`
createEmptyAura(list, shape) ==
    [uuid |-> FreshId(list), shape |-> shape, temporary |-> TRUE, value |-> 0]

\* ---------------------------------------------------------------- getters
\* `undefined`, a value other than `null` under !==
UNDEFINED == "undefined"

\* get isComposite(): this._parentUuid !== undefined, on the private field,
\* which holds a string or null
isComposite(st) == st.parentUuid # UNDEFINED

\* hasEditAccess without `u.user === gameStore.username` in the owner test
hasEditAccessAnyOwner(st) ==
    IF st.uuid = NULL THEN FALSE
    ELSE \/ IS_DM
         \/ (FAKE_PLAYER /\ st.uuid \in activeTokens)
         \/ st.access.edit
         \/ \E i \in 1..Len(st.owners) :
               /\ "edit" \in DOMAIN st.owners[i].access
               /\ st.owners[i].access.edit = TRUE

hasEditAccess(st) ==
    IF st.uuid = NULL THEN FALSE
    ELSE \/ IS_DM
         \/ (FAKE_PLAYER /\ st.uuid \in activeTokens)
         \/ st.access.edit
         \/ \E i \in 1..Len(st.owners) :
               /\ st.owners[i].user = username
               /\ "edit" \in DOMAIN st.owners[i].access
               /\ st.owners[i].access.edit = TRUE

\* ------------------------------------------------------------- outcomes
\* the mutation leaves the fields st and made no call
Local(st) == [st |-> st, calls |-> << >>, error |-> FALSE]

\* layerManager.UUIDMap.get(target)!.op(..., syncTo) at the end of a
\* mutation that leaves the fields st: the call is made when the shape is in
\* the map; otherwise the non-null assertion does not hold and the call on
\* undefined ends the mutation in a TypeError, the fields already changed.
CallShape(st, target, op, syncTo) ==
    IF target \in UUIDMap
    THEN [st |-> st,
          calls |-> << [op |-> op, shape |-> target, syncTo |-> syncTo] >>,
          error |-> FALSE]
    ELSE [st |-> st, calls |-> << >>, error |-> TRUE]

\* ---------------------------------------------------------------- ACCESS
setDefaultAccess(st, a, syncTo) ==
    IF st.uuid = NULL \/ ~hasEditAccess(st) THEN Local(st)
    ELSE LET new == [st EXCEPT !.access = a]
         IN IF syncTo # "UI"
            THEN CallShape(new, st.uuid, "updateDefaultOwner", syncTo)
            ELSE Local(new)

setDefaultEditAccess(st, editAccess, syncTo) ==
    IF st.uuid = NULL \/ ~hasEditAccess(st) THEN Local(st)
    ELSE LET a1 == [st.access EXCEPT !.edit = editAccess]
             a2 == IF editAccess
                   THEN [a1 EXCEPT !.movement = TRUE, !.vision = TRUE]
                   ELSE a1
             new == [st EXCEPT !.access = a2]
         IN IF syncTo # "UI"
            THEN CallShape(new, st.uuid, "updateDefaultOwner", syncTo)
            ELSE Local(new)

\* setDefaultMovementAccess without the `else this._access!.edit = false`
setDefaultMovementAccessKeepsEdit(st, movementAccess, syncTo) ==
    IF st.uuid = NULL \/ ~hasEditAccess(st) THEN Local(st)
    ELSE LET a1 == [st.access EXCEPT !.movement = movementAccess]
             a2 == IF movementAccess THEN [a1 EXCEPT !.vision = TRUE] ELSE a1
             new == [st EXCEPT !.access = a2]
         IN IF syncTo # "UI"
            THEN CallShape(new, st.uuid, "updateDefaultOwner", syncTo)
            ELSE Local(new)

setDefaultMovementAccess(st, movementAccess, syncTo) ==
    IF st.uuid = NULL \/ ~hasEditAccess(st) THEN Local(st)
    ELSE LET a1 == [st.access EXCEPT !.movement = movementAccess]
             a2 == IF movementAccess
                   THEN [a1 EXCEPT !.vision = TRUE]
                   ELSE [a1 EXCEPT !.edit = FALSE]
             new == [st EXCEPT !.access = a2]
         IN IF syncTo # "UI"
            THEN CallShape(new, st.uuid, "updateDefaultOwner", syncTo)
            ELSE Local(new)

setDefaultVisionAccess(st, visionAccess, syncTo) ==
    IF st.uuid = NULL \/ ~hasEditAccess(st) THEN Local(st)
    ELSE LET a1 == [st.access EXCEPT !.vision = visionAccess]
             a2 == IF ~visionAccess
                   THEN [a1 EXCEPT !.movement = FALSE, !.edit = FALSE]
                   ELSE a1
             new == [st EXCEPT !.access = a2]
         IN IF syncTo # "UI"
            THEN CallShape(new, st.uuid, "updateDefaultOwner", syncTo)
            ELSE Local(new)

addOwner(st, owner, syncTo) ==
    IF st.uuid = NULL \/ ~hasEditAccess(st) THEN Local(st)
    ELSE LET new == [st EXCEPT !.owners = Append(st.owners, owner)]
         IN IF syncTo # "UI"
            THEN CallShape(new, st.uuid, "addOwner", syncTo)
            ELSE Local(new)

updateOwner(st, owner, syncTo) ==
    IF st.uuid = NULL \/ ~hasEditAccess(st) THEN Local(st)
    ELSE LET index == OwnerIndex(st.owners, owner.user)
         IN IF index < 0 THEN Local(st)
            ELSE LET new == [st EXCEPT !.owners[index + 1] =
                                          ObjectAssign(st.owners[index + 1], owner)]
                 IN IF syncTo # "UI"
                    THEN CallShape(new, st.uuid, "updateOwner", syncTo)
                    ELSE Local(new)

\* removeOwner whose guard tests the selection only, not hasEditAccess
removeOwnerUngated(st, user, syncTo) ==
    IF st.uuid = NULL THEN Local(st)
    ELSE LET new == [st EXCEPT !.owners = SelectSeq(st.owners, LAMBDA o : o.user # user)]
         IN IF syncTo # "UI"
            THEN CallShape(new, st.uuid, "removeOwner", syncTo)
            ELSE Local(new)

removeOwner(st, user, syncTo) ==
    IF st.uuid = NULL \/ ~hasEditAccess(st) THEN Local(st)
    ELSE LET new == [st EXCEPT !.owners = SelectSeq(st.owners, LAMBDA o : o.user # user)]
         IN IF syncTo # "UI"
            THEN CallShape(new, st.uuid, "removeOwner", syncTo)
            ELSE Local(new)

\* -------------------------------------------------------------- TRACKERS
\* pushTracker without the `if (data.syncTo !== SyncTo.UI)` around the call
pushTrackerForwardsEcho(st, data, shape, syncTo) ==
    IF ~hasEditAccess(st) THEN Local(st)
    ELSE LET tracker == toUiTrackers(<< data >>, shape)[1]
         IN IF st.uuid = shape
            THEN CallShape([st EXCEPT !.trackers =
                               SpliceIn(st.trackers, Len(st.trackers) - 1, tracker)],
                           shape, "pushTracker", syncTo)
            ELSE IF st.parentUuid = shape
            THEN CallShape([st EXCEPT
                               !.trackers = SpliceIn(st.trackers,
                                                     st.firstRealTrackerIndex, tracker),
                               !.firstRealTrackerIndex = st.firstRealTrackerIndex + 1],
                           shape, "pushTracker", syncTo)
            ELSE Local(st)

pushTracker(st, data, shape, syncTo) ==
    IF ~hasEditAccess(st) THEN Local(st)
    ELSE LET tracker == toUiTrackers(<< data >>, shape)[1]
         IN IF st.uuid = shape
            THEN LET new == [st EXCEPT !.trackers =
                                SpliceIn(st.trackers, Len(st.trackers) - 1, tracker)]
                 IN IF syncTo # "UI"
                    THEN CallShape(new, shape, "pushTracker", syncTo)
                    ELSE Local(new)
            ELSE IF st.parentUuid = shape
            THEN LET new == [st EXCEPT
                                !.trackers = SpliceIn(st.trackers,
                                                      st.firstRealTrackerIndex, tracker),
                                !.firstRealTrackerIndex = st.firstRealTrackerIndex + 1]
                 IN IF syncTo # "UI"
                    THEN CallShape(new, shape, "pushTracker", syncTo)
                    ELSE Local(new)
            ELSE Local(st)

\* updateTracker without the `if (data.syncTo !== SyncTo.UI)` around the calls
updateTrackerForwardsEcho(st, id, delta, syncTo) ==
    IF ~hasEditAccess(st) \/ FindIndex(st.trackers, id) < 0 THEN Local(st)
    ELSE LET i == FindIndex(st.trackers, id)
             tracker == ObjectAssign(st.trackers[i + 1], delta)
             merged == [st EXCEPT !.trackers[i + 1] = tracker]
             promoted == [merged.trackers EXCEPT ![i + 1].temporary = FALSE]
         IN IF tracker.shape \notin UUIDMap THEN Local(merged)
            ELSE IF tracker.temporary
            THEN [st |-> [merged EXCEPT !.trackers =
                            Append(promoted, createEmptyTracker(promoted, st.uuid))],
                  calls |-> << [op |-> "pushTracker", shape |-> tracker.shape,
                                syncTo |-> "SERVER"] >>,
                  error |-> FALSE]
            ELSE [st |-> merged,
                  calls |-> << [op |-> "updateTracker", shape |-> tracker.shape,
                                syncTo |-> syncTo] >>,
                  error |-> FALSE]

updateTracker(st, id, delta, syncTo) ==
    IF ~hasEditAccess(st) THEN Local(st)
    ELSE LET i == FindIndex(st.trackers, id)
         IN IF i < 0 THEN Local(st)
            ELSE LET tracker == ObjectAssign(st.trackers[i + 1], delta)
                     merged == [st EXCEPT !.trackers[i + 1] = tracker]
                 IN IF tracker.shape \notin UUIDMap THEN Local(merged)
                    ELSE IF syncTo # "UI"
                    THEN IF tracker.temporary
                         THEN LET promoted == [merged.trackers EXCEPT
                                                 ![i + 1].temporary = FALSE]
                              IN [st |-> [merged EXCEPT !.trackers =
                                            Append(promoted,
                                                   createEmptyTracker(promoted, st.uuid))],
                                  calls |-> << [op |-> "pushTracker",
                                                shape |-> tracker.shape,
                                                syncTo |-> "SERVER"] >>,
                                  error |-> FALSE]
                         ELSE [st |-> merged,
                               calls |-> << [op |-> "updateTracker",
                                             shape |-> tracker.shape,
                                             syncTo |-> syncTo] >>,
                               error |-> FALSE]
                    ELSE Local(merged)

\* removeTracker that moves the aura cursor where the code moves the tracker
\* cursor
removeTrackerMovesAuraCursor(st, id, syncTo) ==
    IF ~hasEditAccess(st) THEN Local(st)
    ELSE LET trackerIndex == FindIndex(st.trackers, id)
         IN IF trackerIndex < 0 THEN Local(st)
            ELSE LET tracker == st.trackers[trackerIndex + 1]
                     new == [st EXCEPT
                               !.trackers = SpliceOut(st.trackers, trackerIndex),
                               !.firstRealAuraIndex =
                                   IF trackerIndex < st.firstRealTrackerIndex
                                   THEN st.firstRealAuraIndex - 1
                                   ELSE st.firstRealAuraIndex]
                 IN IF tracker.shape \notin UUIDMap THEN Local(new)
                    ELSE IF syncTo # "UI"
                    THEN [st |-> new,
                          calls |-> << [op |-> "removeTracker",
                                        shape |-> tracker.shape,
                                        syncTo |-> syncTo] >>,
                          error |-> FALSE]
                    ELSE Local(new)

removeTracker(st, id, syncTo) ==
    IF ~hasEditAccess(st) THEN Local(st)
    ELSE LET trackerIndex == FindIndex(st.trackers, id)
         IN IF trackerIndex < 0 THEN Local(st)
            ELSE LET tracker == st.trackers[trackerIndex + 1]
                     new == [st EXCEPT
                               !.trackers = SpliceOut(st.trackers, trackerIndex),
                               !.firstRealTrackerIndex =
                                   IF trackerIndex < st.firstRealTrackerIndex
                                   THEN st.firstRealTrackerIndex - 1
                                   ELSE st.firstRealTrackerIndex]
                 IN IF tracker.shape \notin UUIDMap THEN Local(new)
                    ELSE IF syncTo # "UI"
                    THEN [st |-> new,
                          calls |-> << [op |-> "removeTracker",
                                        shape |-> tracker.shape,
                                        syncTo |-> syncTo] >>,
                          error |-> FALSE]
                    ELSE Local(new)

\* ----------------------------------------------------------------- AURAS
pushAura(st, data, shape, syncTo) ==
    IF ~hasEditAccess(st) THEN Local(st)
    ELSE LET aura == toUiAuras(<< data >>, shape)[1]
         IN IF st.uuid = shape
            THEN LET new == [st EXCEPT !.auras =
                                SpliceIn(st.auras, Len(st.auras) - 1, aura)]
                 IN IF syncTo # "UI"
                    THEN CallShape(new, shape, "pushAura", syncTo)
                    ELSE Local(new)
            ELSE IF st.parentUuid = shape
            THEN LET new == [st EXCEPT
                                !.auras = SpliceIn(st.auras, st.firstRealAuraIndex, aura),
                                !.firstRealAuraIndex = st.firstRealAuraIndex + 1]
                 IN IF syncTo # "UI"
                    THEN CallShape(new, shape, "pushAura", syncTo)
                    ELSE Local(new)
            ELSE Local(st)

updateAura(st, id, delta, syncTo) ==
    IF ~hasEditAccess(st) THEN Local(st)
    ELSE LET i == FindIndex(st.auras, id)
         IN IF i < 0 THEN Local(st)
            ELSE LET aura == ObjectAssign(st.auras[i + 1], delta)
                     merged == [st EXCEPT !.auras[i + 1] = aura]
                 IN IF aura.shape \notin UUIDMap THEN Local(merged)
                    ELSE IF syncTo # "UI"
                    THEN IF aura.temporary
                         THEN LET promoted == [merged.auras EXCEPT
                                                 ![i + 1].temporary = FALSE]
                              IN [st |-> [merged EXCEPT !.auras =
                                            Append(promoted,
                                                   createEmptyAura(promoted, st.uuid))],
                                  calls |-> << [op |-> "pushAura",
                                                shape |-> aura.shape,
                                                syncTo |-> "SERVER"] >>,
                                  error |-> FALSE]
                         ELSE [st |-> merged,
                               calls |-> << [op |-> "updateAura",
                                             shape |-> aura.shape,
                                             syncTo |-> syncTo] >>,
                               error |-> FALSE]
                    ELSE Local(merged)

removeAura(st, id, syncTo) ==
    IF ~hasEditAccess(st) THEN Local(st)
    ELSE LET auraIndex == FindIndex(st.auras, id)
         IN IF auraIndex < 0 THEN Local(st)
            ELSE LET aura == st.auras[auraIndex + 1]
                     new == [st EXCEPT
                               !.auras = SpliceOut(st.auras, auraIndex),
                               !.firstRealAuraIndex =
                                   IF auraIndex < st.firstRealAuraIndex
                                   THEN st.firstRealAuraIndex - 1
                                   ELSE st.firstRealAuraIndex]
                 IN IF aura.shape \notin UUIDMap THEN Local(new)
                    ELSE IF syncTo # "UI"
                    THEN [st |-> new,
                          calls |-> << [op |-> "removeAura",
                                        shape |-> aura.shape,
                                        syncTo |-> syncTo] >>,
                          error |-> FALSE]
                    ELSE Local(new)

\* ----------------------------------------------------- STARTUP / CLEANUP
setActiveShape(st, shape) ==
    LET parent == getCompositeParent(shape)
        parentTrackers == IF parent # NULL
                          THEN toUiTrackers(ShapeTrackers(parent), parent)
                          ELSE << >>
        parentAuras == IF parent # NULL
                       THEN toUiAuras(ShapeAuras(parent), parent)
                       ELSE << >>
        realTrackers == parentTrackers \o toUiTrackers(ShapeTrackers(shape), shape)
        realAuras == parentAuras \o toUiAuras(ShapeAuras(shape), shape)
    IN Local([uuid |-> shape,
              parentUuid |-> parent,
              lastUuid |-> st.lastUuid,
              access |-> ShapeDefaultAccess(shape),
              owners |-> ShapeOwners(shape),
              trackers |-> Append(realTrackers, createEmptyTracker(realTrackers, shape)),
              firstRealTrackerIndex |-> IF parent # NULL
                                        THEN Len(parentTrackers)
                                        ELSE st.firstRealTrackerIndex,
              auras |-> Append(realAuras, createEmptyAura(realAuras, shape)),
              firstRealAuraIndex |-> IF parent # NULL
                                     THEN Len(parentAuras)
                                     ELSE st.firstRealAuraIndex])

\* clear without `this._lastUuid = this._uuid`
clearKeepsLastUuid(st) ==
    Local([uuid |-> NULL,
           parentUuid |-> NULL,
           lastUuid |-> st.lastUuid,
           access |-> NULL,
           owners |-> << >>,
           trackers |-> << >>,
           firstRealTrackerIndex |-> 0,
           auras |-> << >>,
           firstRealAuraIndex |-> 0])

clear(st) ==
    Local([uuid |-> NULL,
           parentUuid |-> NULL,
           lastUuid |-> st.uuid,
           access |-> NULL,
           owners |-> << >>,
           trackers |-> << >>,
           firstRealTrackerIndex |-> 0,
           auras |-> << >>,
           firstRealAuraIndex |-> 0])

\* ------------------------------------------------------------------ Init
Init ==
    /\ uuid = NULL
    /\ parentUuid = NULL
    /\ lastUuid = NULL
    /\ access = NULL
    /\ owners = << >>
    /\ trackers = << >>
    /\ firstRealTrackerIndex = 0
    /\ auras = << >>
    /\ firstRealAuraIndex = 0
    /\ \E v \in Viewers :
          /\ IS_DM = v.IS_DM
          /\ FAKE_PLAYER = v.FAKE_PLAYER
          /\ activeTokens = v.activeTokens
    /\ UUIDMap = Shapes
    /\ calls = << >>
    /\ error = FALSE
    /\ ops = 0
    /\ pending = << >>
    /\ forwarded = 0
    /\ delivered = 0
    /\ held = [access |-> FALSE, owners |-> << >>, trackers |-> << >>, auras |-> << >>]
    /\ domain = NULL

\* --------------------------------------------------------------- actions
\* the mutation's outcome becomes the store's fields
Assign(out) ==
    /\ uuid' = out.st.uuid
    /\ parentUuid' = out.st.parentUuid
    /\ lastUuid' = out.st.lastUuid
    /\ access' = out.st.access
    /\ owners' = out.st.owners
    /\ trackers' = out.st.trackers
    /\ firstRealTrackerIndex' = out.st.firstRealTrackerIndex
    /\ auras' = out.st.auras
    /\ firstRealAuraIndex' = out.st.firstRealAuraIndex
    /\ calls' = out.calls
    /\ error' = out.error
    /\ UNCHANGED env

\* a mutation that the gateway does not answer
Commit(out) == Assign(out) /\ UNCHANGED << gateway, held, domain >>

\* one more incremental mutation
Mutate(out) == ops < MaxOps /\ ops' = ops + 1 /\ Commit(out)

SetActiveShape == \E s \in Selectable : Commit(setActiveShape(State, s)) /\ ops' = 0

Clear == Commit(clear(State)) /\ ops' = 0

SetDefaultAccess ==
    \E a \in Accesses, syncTo \in SyncTo : Mutate(setDefaultAccess(State, a, syncTo))

SetDefaultEditAccess ==
    \E b \in BOOLEAN, syncTo \in SyncTo : Mutate(setDefaultEditAccess(State, b, syncTo))

SetDefaultMovementAccess ==
    \E b \in BOOLEAN, syncTo \in SyncTo : Mutate(setDefaultMovementAccess(State, b, syncTo))

SetDefaultVisionAccess ==
    \E b \in BOOLEAN, syncTo \in SyncTo : Mutate(setDefaultVisionAccess(State, b, syncTo))

AddOwner ==
    \E o \in OwnerPayloads, syncTo \in SyncTo : Mutate(addOwner(State, o, syncTo))

UpdateOwner ==
    \E o \in OwnerPayloads, syncTo \in SyncTo : Mutate(updateOwner(State, o, syncTo))

RemoveOwner ==
    \E u \in Users, syncTo \in SyncTo : Mutate(removeOwner(State, u, syncTo))

\* the ids a request may name: the ones of the list, and the pushed one's
TrackerIds(st) ==
    { t.uuid : t \in PushTrackers } \cup { st.trackers[i].uuid : i \in 1..Len(st.trackers) }

AuraIds(st) ==
    { a.uuid : a \in PushAuras } \cup { st.auras[i].uuid : i \in 1..Len(st.auras) }

PushTracker ==
    \E t \in PushTrackers, s \in Shapes, syncTo \in SyncTo :
        Mutate(pushTracker(State, t, s, syncTo))

UpdateTracker ==
    \E id \in TrackerIds(State), d \in Deltas, syncTo \in SyncTo :
        Mutate(updateTracker(State, id, d, syncTo))

RemoveTracker ==
    \E id \in TrackerIds(State), syncTo \in SyncTo : Mutate(removeTracker(State, id, syncTo))

PushAura ==
    \E a \in PushAuras, s \in Shapes, syncTo \in SyncTo :
        Mutate(pushAura(State, a, s, syncTo))

UpdateAura ==
    \E id \in AuraIds(State), d \in Deltas, syncTo \in SyncTo :
        Mutate(updateAura(State, id, d, syncTo))

RemoveAura ==
    \E id \in AuraIds(State), syncTo \in SyncTo : Mutate(removeAura(State, id, syncTo))

\* a shape leaves the layer: its key is deleted from layerManager.UUIDMap
LayerRemoveShape ==
    \E s \in Selectable :
        /\ s \in UUIDMap
        /\ UUIDMap' = UUIDMap \ {s}
        /\ calls' = << >>
        /\ error' = FALSE
        /\ UNCHANGED << store, IS_DM, FAKE_PLAYER, activeTokens, ops, gateway, held, domain >>

\* a shape is added to the layer again
LayerAddShape ==
    \E s \in Selectable :
        /\ s \notin UUIDMap
        /\ UUIDMap' = UUIDMap \cup {s}
        /\ calls' = << >>
        /\ error' = FALSE
        /\ UNCHANGED << store, IS_DM, FAKE_PLAYER, activeTokens, ops, gateway, held, domain >>

Next ==
    \/ SetActiveShape
    \/ Clear
    \/ SetDefaultAccess
    \/ SetDefaultEditAccess
    \/ SetDefaultMovementAccess
    \/ SetDefaultVisionAccess
    \/ AddOwner
    \/ UpdateOwner
    \/ RemoveOwner
    \/ PushTracker
    \/ UpdateTracker
    \/ RemoveTracker
    \/ PushAura
    \/ UpdateAura
    \/ RemoveAura
    \/ LayerRemoveShape
    \/ LayerAddShape

Spec == Init /\ [][Next]_vars


\* ------------------------------------------------- what the claims speak of
\* Every store mutation other than setActiveShape and clear, with every
\* payload, under the tag syncTo: its name and its outcome from st.
Mutations(st, syncTo) ==
    { [op |-> "setDefaultAccess", out |-> setDefaultAccess(st, a, syncTo)] : a \in Accesses }
    \cup { [op |-> "setDefaultEditAccess", out |-> setDefaultEditAccess(st, b, syncTo)] :
             b \in BOOLEAN }
    \cup { [op |-> "setDefaultMovementAccess", out |-> setDefaultMovementAccess(st, b, syncTo)] :
             b \in BOOLEAN }
    \cup { [op |-> "setDefaultVisionAccess", out |-> setDefaultVisionAccess(st, b, syncTo)] :
             b \in BOOLEAN }
    \cup { [op |-> "addOwner", out |-> addOwner(st, o, syncTo)] : o \in OwnerPayloads }
    \cup { [op |-> "updateOwner", out |-> updateOwner(st, o, syncTo)] : o \in OwnerPayloads }
    \cup { [op |-> "removeOwner", out |-> removeOwner(st, u, syncTo)] : u \in Users }
    \cup { [op |-> "pushTracker", out |-> pushTracker(st, t, s, syncTo)] :
             t \in PushTrackers, s \in Shapes }
    \cup { [op |-> "updateTracker", out |-> updateTracker(st, id, d, syncTo)] :
             id \in TrackerIds(st), d \in Deltas }
    \cup { [op |-> "removeTracker", out |-> removeTracker(st, id, syncTo)] :
             id \in TrackerIds(st) }
    \cup { [op |-> "pushAura", out |-> pushAura(st, a, s, syncTo)] :
             a \in PushAuras, s \in Shapes }
    \cup { [op |-> "updateAura", out |-> updateAura(st, id, d, syncTo)] :
             id \in AuraIds(st), d \in Deltas }
    \cup { [op |-> "removeAura", out |-> removeAura(st, id, syncTo)] : id \in AuraIds(st) }

\* the tags that are no echo
Genuine == SyncTo \ {"UI"}

\* the entries of a list that are temporary
Temporary(list) == { i \in 1..Len(list) : list[i].temporary }

\* the entries of a list that belong to the shape
OwnedBy(list, shape) == { i \in 1..Len(list) : list[i].shape = shape }

AllTrue == [edit |-> TRUE, movement |-> TRUE, vision |-> TRUE]
AllFalse == [edit |-> FALSE, movement |-> FALSE, vision |-> FALSE]

\* C1: no double-forward.  In every reachable state, every store mutation
\* invoked with the echo tag SyncTo.UI, whatever its payload, makes no call on
\* a core shape (and does not reach the shape lookup, so it cannot fail there).
C1_NoDoubleForward ==
    \A m \in Mutations(State, "UI") : m.out.calls = << >> /\ ~m.out.error

\* C1 witness: an echo that updates the temporary placeholder of the tracker
\* list changes the mirror and makes no call.
C1_Witness ==
    \E i \in Temporary(trackers), d \in Deltas :
        LET out == updateTracker(State, trackers[i].uuid, d, "UI")
        IN /\ FindIndex(trackers, trackers[i].uuid) = i - 1
           /\ out.st.trackers # trackers
           /\ out.st.trackers[i].temporary
           /\ out.calls = << >>

\* C2: forward exactly once.  In every reachable state, every store mutation
\* invoked with a tag other than SyncTo.UI that changes the mirror makes
\* exactly one call on a core shape.  (The silent no-ops leave the mirror as it
\* is, so they are outside the statement.)
C2_ForwardExactlyOnce ==
    \A syncTo \in Genuine : \A m \in Mutations(State, syncTo) :
        m.out.st # State => Len(m.out.calls) = 1

\* C3: access ordering.  In every reachable state with a selection the stored
\* default access has edit => movement /\ vision and movement => vision.
C3_AccessOrdering ==
    uuid # NULL =>
        /\ access.edit => (access.movement /\ access.vision)
        /\ access.movement => access.vision

\* C4: access monotonic propagation.  For a viewer with edit access and every
\* stored descriptor: setDefaultEditAccess(true) gives all three; ...(false)
\* clears edit only; setDefaultMovementAccess(false) clears movement and edit
\* and keeps vision; ...(true) sets movement and vision and keeps edit;
\* setDefaultVisionAccess(false) clears all three; ...(true) sets vision only.
C4_AccessPropagation ==
    hasEditAccess(State) =>
        \A syncTo \in SyncTo :
            /\ setDefaultEditAccess(State, TRUE, syncTo).st.access = AllTrue
            /\ setDefaultEditAccess(State, FALSE, syncTo).st.access =
                   [access EXCEPT !.edit = FALSE]
            /\ setDefaultMovementAccess(State, FALSE, syncTo).st.access =
                   [edit |-> FALSE, movement |-> FALSE, vision |-> access.vision]
            /\ setDefaultMovementAccess(State, TRUE, syncTo).st.access =
                   [edit |-> access.edit, movement |-> TRUE, vision |-> TRUE]
            /\ setDefaultVisionAccess(State, FALSE, syncTo).st.access = AllFalse
            /\ setDefaultVisionAccess(State, TRUE, syncTo).st.access =
                   [access EXCEPT !.vision = TRUE]

\* C4 witness: the scenario.  The descriptor is all true, the viewer may edit,
\* and setDefaultVisionAccess(false) makes it all false.
C4_Witness ==
    /\ hasEditAccess(State)
    /\ access = AllTrue
    /\ setDefaultVisionAccess(State, FALSE, "SERVER").st.access = AllFalse

\* C5: no-op under lost access.  In every reachable state without effective
\* edit access (no selection included), every store mutation other than
\* setActiveShape and clear, with every payload and every tag, leaves all the
\* store's fields as they are and makes no call.
C5_NoOpUnderLostAccess ==
    ~hasEditAccess(State) =>
        \A syncTo \in SyncTo : \A m \in Mutations(State, syncTo) :
            /\ m.out.st = State
            /\ m.out.calls = << >>
            /\ ~m.out.error

\* C5 witness: P is selected by a viewer who may not edit it, a mutation has
\* been invoked since the selection, and the mirror is still the snapshot: the
\* owner that a removeOwner names is still there.
C5_Witness ==
    /\ uuid = "P"
    /\ ~hasEditAccess(State)
    /\ ops = 1
    /\ owners = ShapeOwners("P")
    /\ calls = << >>
    /\ OwnerIndex(owners, "u2") >= 0

\* C6: placeholder invariant.  While a shape is selected, the tracker list and
\* the aura list each hold exactly one temporary entry, and it is the last.
C6_PlaceholderInvariant ==
    uuid # NULL =>
        /\ Temporary(trackers) = {Len(trackers)}
        /\ Len(trackers) >= 1
        /\ Temporary(auras) = {Len(auras)}
        /\ Len(auras) >= 1

\* C7: selection snapshot.  From every reachable state, setActiveShape(shape)
\* gives trackers = the parent's ++ the shape's own ++ one placeholder, the
\* cursor = the number of the parent's trackers, 0 without a parent; the same
\* for the auras.
C7_SelectionSnapshot ==
    \A s \in Selectable :
        LET new == setActiveShape(State, s).st
            parent == getCompositeParent(s)
            np == IF parent = NULL THEN 0 ELSE Len(ShapeTrackers(parent))
            na == IF parent = NULL THEN 0 ELSE Len(ShapeAuras(parent))
            no == Len(ShapeTrackers(s))
            ao == Len(ShapeAuras(s))
        IN /\ Len(new.trackers) = np + no + 1
           /\ \A i \in 1..np :
                 /\ new.trackers[i].uuid = ShapeTrackers(parent)[i].uuid
                 /\ new.trackers[i].shape = parent
                 /\ ~new.trackers[i].temporary
           /\ \A i \in 1..no :
                 /\ new.trackers[np + i].uuid = ShapeTrackers(s)[i].uuid
                 /\ new.trackers[np + i].shape = s
                 /\ ~new.trackers[np + i].temporary
           /\ new.trackers[np + no + 1].temporary
           /\ new.firstRealTrackerIndex = np
           /\ Len(new.auras) = na + ao + 1
           /\ \A i \in 1..na :
                 /\ new.auras[i].uuid = ShapeAuras(parent)[i].uuid
                 /\ new.auras[i].shape = parent
                 /\ ~new.auras[i].temporary
           /\ \A i \in 1..ao :
                 /\ new.auras[na + i].uuid = ShapeAuras(s)[i].uuid
                 /\ new.auras[na + i].shape = s
                 /\ ~new.auras[na + i].temporary
           /\ new.auras[na + ao + 1].temporary
           /\ new.firstRealAuraIndex = na

\* C8: cursor consistency.  In every reachable state each cursor is the number
\* of entries of its list that belong to the parent, hence within the list.
C8_CursorConsistency ==
    /\ firstRealTrackerIndex = Cardinality(OwnedBy(trackers, parentUuid))
    /\ firstRealTrackerIndex \in 0..Len(trackers)
    /\ firstRealAuraIndex = Cardinality(OwnedBy(auras, parentUuid))
    /\ firstRealAuraIndex \in 0..Len(auras)

\* C9: owner uniqueness.  In every reachable state no two entries of the owner
\* list have the same user.
C9_OwnerUniqueness ==
    \A i, j \in 1..Len(owners) : i # j => owners[i].user # owners[j].user

\* C10: placeholder promotion.  For a viewer with edit access, updateTracker
\* (updateAura) with a tag other than SyncTo.UI on an id of the list: when the
\* entry found is temporary, the delta is merged into it, it is no longer
\* temporary, the one call made is a push, and one temporary entry of the
\* selected shape is appended; when it is not temporary, the one call made is
\* an update and the list keeps its length.
C10_PlaceholderPromotion ==
    hasEditAccess(State) =>
        \A syncTo \in Genuine, d \in Deltas :
            /\ \A i \in 1..Len(trackers) :
                  FindIndex(trackers, trackers[i].uuid) = i - 1 =>
                      LET out == updateTracker(State, trackers[i].uuid, d, syncTo)
                          n == Len(trackers)
                      IN IF trackers[i].temporary
                         THEN /\ Len(out.st.trackers) = n + 1
                              /\ out.st.trackers[i] =
                                    [ObjectAssign(trackers[i], d) EXCEPT !.temporary = FALSE]
                              /\ out.st.trackers[n + 1].temporary
                              /\ out.st.trackers[n + 1].shape = uuid
                              /\ Len(out.calls) = 1
                              /\ out.calls[1].op = "pushTracker"
                         ELSE /\ Len(out.st.trackers) = n
                              /\ Len(out.calls) = 1
                              /\ out.calls[1].op = "updateTracker"
            /\ \A i \in 1..Len(auras) :
                  FindIndex(auras, auras[i].uuid) = i - 1 =>
                      LET out == updateAura(State, auras[i].uuid, d, syncTo)
                          n == Len(auras)
                      IN IF auras[i].temporary
                         THEN /\ Len(out.st.auras) = n + 1
                              /\ out.st.auras[i] =
                                    [ObjectAssign(auras[i], d) EXCEPT !.temporary = FALSE]
                              /\ out.st.auras[n + 1].temporary
                              /\ out.st.auras[n + 1].shape = uuid
                              /\ Len(out.calls) = 1
                              /\ out.calls[1].op = "pushAura"
                         ELSE /\ Len(out.st.auras) = n
                              /\ Len(out.calls) = 1
                              /\ out.calls[1].op = "updateAura"

\* C11: unknown entity id is a silent no-op.  In every reachable state and
\* for every tag: updateOwner and removeOwner for a user that is not in the
\* owner list, and updateTracker / removeTracker / updateAura / removeAura for
\* an id that is not in the list, leave all the store's fields as they are,
\* make no call on a core shape and do not fail.
C11_UnknownIdNoOp ==
    \A syncTo \in SyncTo :
        /\ \A o \in OwnerPayloads :
              OwnerIndex(owners, o.user) < 0 =>
                  updateOwner(State, o, syncTo) = Local(State)
        /\ \A u \in Users :
              OwnerIndex(owners, u) < 0 =>
                  removeOwner(State, u, syncTo) = Local(State)
        /\ \A id \in TrackerIds(State) :
              FindIndex(trackers, id) < 0 =>
                  /\ \A d \in Deltas : updateTracker(State, id, d, syncTo) = Local(State)
                  /\ removeTracker(State, id, syncTo) = Local(State)
        /\ \A id \in AuraIds(State) :
              FindIndex(auras, id) < 0 =>
                  /\ \A d \in Deltas : updateAura(State, id, d, syncTo) = Local(State)
                  /\ removeAura(State, id, syncTo) = Local(State)

\* the fields of an access descriptor
AccessFields == {"edit", "movement", "vision"}

\* C12: updateOwner merges.  For a viewer with edit access, an owner of the
\* list and every payload for that user, the access of a partial payload
\* included: after updateOwner the matched owner has the payload's access
\* fields, every access field the payload does not supply keeps the value it
\* had, the list keeps its length and every other owner is as it was.
C12_UpdateOwnerMerges ==
    hasEditAccess(State) =>
        \A syncTo \in SyncTo, o \in OwnerPayloads :
            OwnerIndex(owners, o.user) >= 0 =>
                LET i == OwnerIndex(owners, o.user) + 1
                    new == updateOwner(State, o, syncTo).st.owners
                IN /\ Len(new) = Len(owners)
                   /\ \A j \in 1..Len(owners) : j # i => new[j] = owners[j]
                   /\ new[i].user = o.user
                   /\ \A f \in AccessFields :
                         IF f \in DOMAIN o.access
                         THEN f \in DOMAIN new[i].access
                              /\ new[i].access[f] = o.access[f]
                         ELSE f \in DOMAIN owners[i].access =>
                                 /\ f \in DOMAIN new[i].access
                                 /\ new[i].access[f] = owners[i].access[f]

\* the list is segmented for the selection of st: every entry of the parent
\* precedes every entry of the selected shape, and every entry that is not
\* temporary precedes every temporary one
Segmented(list, st) ==
    \A i, j \in 1..Len(list) :
        /\ (list[i].shape = st.parentUuid /\ list[j].shape = st.uuid) => i < j
        /\ (~list[i].temporary /\ list[j].temporary) => i < j

\* C13: push placement and segmented ordering.  For a viewer with edit access
\* and every tag: pushTracker (pushAura) for the selected shape's id puts the
\* entry immediately before the trailing placeholder and keeps the cursor; for
\* the parent's id it puts the entry at the cursor and increments the cursor;
\* for any other id it changes nothing and makes no call.  In every reachable
\* state and after every push the lists are segmented: the parent's entries,
\* then the selected shape's, then the placeholder.
C13_PushPlacement ==
    /\ Segmented(trackers, State)
    /\ Segmented(auras, State)
    /\ hasEditAccess(State) =>
          \A syncTo \in SyncTo, s \in Shapes :
              /\ \A t \in PushTrackers :
                    LET out == pushTracker(State, t, s, syncTo)
                        new == out.st.trackers
                        n == Len(trackers)
                        entry == toUiTrackers(<< t >>, s)[1]
                    IN IF s = uuid
                       THEN /\ Len(new) = n + 1
                            /\ new[n + 1] = trackers[n]
                            /\ new[n + 1].temporary
                            /\ new[n] = entry
                            /\ SubSeq(new, 1, n - 1) = SubSeq(trackers, 1, n - 1)
                            /\ out.st.firstRealTrackerIndex = firstRealTrackerIndex
                            /\ Segmented(new, out.st)
                       ELSE IF s = parentUuid
                       THEN /\ new = SpliceIn(trackers, firstRealTrackerIndex, entry)
                            /\ out.st.firstRealTrackerIndex = firstRealTrackerIndex + 1
                            /\ Segmented(new, out.st)
                       ELSE out = Local(State)
              /\ \A a \in PushAuras :
                    LET out == pushAura(State, a, s, syncTo)
                        new == out.st.auras
                        n == Len(auras)
                        entry == toUiAuras(<< a >>, s)[1]
                    IN IF s = uuid
                       THEN /\ Len(new) = n + 1
                            /\ new[n + 1] = auras[n]
                            /\ new[n + 1].temporary
                            /\ new[n] = entry
                            /\ SubSeq(new, 1, n - 1) = SubSeq(auras, 1, n - 1)
                            /\ out.st.firstRealAuraIndex = firstRealAuraIndex
                            /\ Segmented(new, out.st)
                       ELSE IF s = parentUuid
                       THEN /\ new = SpliceIn(auras, firstRealAuraIndex, entry)
                            /\ out.st.firstRealAuraIndex = firstRealAuraIndex + 1
                            /\ Segmented(new, out.st)
                       ELSE out = Local(State)

\* Every store mutation with every payload under the tag syncTo from st, and
\* the same mutation with the same payload delivered again as an echo
\* (SyncTo.UI) to the fields the first one left: the two outcomes.
Echoed(st, syncTo) ==
    { [op |-> "setDefaultAccess",
       first |-> setDefaultAccess(st, a, syncTo),
       again |-> setDefaultAccess(setDefaultAccess(st, a, syncTo).st, a, "UI")] :
         a \in Accesses }
    \cup { [op |-> "setDefaultEditAccess",
            first |-> setDefaultEditAccess(st, b, syncTo),
            again |-> setDefaultEditAccess(setDefaultEditAccess(st, b, syncTo).st, b, "UI")] :
              b \in BOOLEAN }
    \cup { [op |-> "setDefaultMovementAccess",
            first |-> setDefaultMovementAccess(st, b, syncTo),
            again |-> setDefaultMovementAccess(
                          setDefaultMovementAccess(st, b, syncTo).st, b, "UI")] :
              b \in BOOLEAN }
    \cup { [op |-> "setDefaultVisionAccess",
            first |-> setDefaultVisionAccess(st, b, syncTo),
            again |-> setDefaultVisionAccess(
                          setDefaultVisionAccess(st, b, syncTo).st, b, "UI")] :
              b \in BOOLEAN }
    \cup { [op |-> "addOwner",
            first |-> addOwner(st, o, syncTo),
            again |-> addOwner(addOwner(st, o, syncTo).st, o, "UI")] :
              o \in OwnerPayloads }
    \cup { [op |-> "updateOwner",
            first |-> updateOwner(st, o, syncTo),
            again |-> updateOwner(updateOwner(st, o, syncTo).st, o, "UI")] :
              o \in OwnerPayloads }
    \cup { [op |-> "removeOwner",
            first |-> removeOwner(st, u, syncTo),
            again |-> removeOwner(removeOwner(st, u, syncTo).st, u, "UI")] :
              u \in Users }
    \cup { [op |-> "pushTracker",
            first |-> pushTracker(st, t, s, syncTo),
            again |-> pushTracker(pushTracker(st, t, s, syncTo).st, t, s, "UI")] :
              t \in PushTrackers, s \in Shapes }
    \cup { [op |-> "updateTracker",
            first |-> updateTracker(st, id, d, syncTo),
            again |-> updateTracker(updateTracker(st, id, d, syncTo).st, id, d, "UI")] :
              id \in TrackerIds(st), d \in Deltas }
    \cup { [op |-> "removeTracker",
            first |-> removeTracker(st, id, syncTo),
            again |-> removeTracker(removeTracker(st, id, syncTo).st, id, "UI")] :
              id \in TrackerIds(st) }
    \cup { [op |-> "pushAura",
            first |-> pushAura(st, a, s, syncTo),
            again |-> pushAura(pushAura(st, a, s, syncTo).st, a, s, "UI")] :
              a \in PushAuras, s \in Shapes }
    \cup { [op |-> "updateAura",
            first |-> updateAura(st, id, d, syncTo),
            again |-> updateAura(updateAura(st, id, d, syncTo).st, id, d, "UI")] :
              id \in AuraIds(st), d \in Deltas }
    \cup { [op |-> "removeAura",
            first |-> removeAura(st, id, syncTo),
            again |-> removeAura(removeAura(st, id, syncTo).st, id, "UI")] :
              id \in AuraIds(st) }

\* C14: idempotence under re-entrant echo.  In every reachable state, for
\* every mutation and payload with a tag other than SyncTo.UI that is
\* forwarded, the same mutation with the same payload delivered again as an
\* echo leaves the store's fields as the first application left them.
C14_EchoIdempotent ==
    \A syncTo \in Genuine : \A m \in Echoed(State, syncTo) :
        Len(m.first.calls) = 1 => m.again.st = m.first.st

\* some entry of the owner list names the viewer and has access.edit === true
ViewerOwnsWithEdit ==
    \E i \in 1..Len(owners) :
        /\ owners[i].user = username
        /\ "edit" \in DOMAIN owners[i].access
        /\ owners[i].access.edit = TRUE

\* C15: effective edit access.  In every reachable state hasEditAccess is true
\* if and only if a shape is selected and one of these holds: the viewer is
\* the DM; the viewer plays a fake player and the selected uuid is among the
\* active tokens; the stored default access has edit; an owner entry names the
\* viewer with access.edit true.  Without a selection it is false, for the DM
\* too.
C15_EffectiveEditAccess ==
    /\ hasEditAccess(State) <=>
          /\ uuid # NULL
          /\ \/ IS_DM
             \/ (FAKE_PLAYER /\ uuid \in activeTokens)
             \/ access.edit
             \/ ViewerOwnsWithEdit
    /\ uuid = NULL => ~hasEditAccess(State)

\* C15 witness: P is selected by a player who is not the DM and holds no
\* token; the default access has no edit and the only owner with edit is
\* another user, so there is no edit access although an owner has edit.
C15_Witness ==
    /\ uuid = "P"
    /\ ~IS_DM
    /\ ~FAKE_PLAYER
    /\ ~access.edit
    /\ \E i \in 1..Len(owners) : owners[i].user # username /\ owners[i].access.edit
    /\ ~hasEditAccess(State)

\* C16: clear.  From every reachable state clear() leaves lastUuid = the uuid
\* selected before the call, uuid and parentUuid unset, access null, owners,
\* trackers and auras empty and both cursors 0, and makes no call on a core
\* shape; after setActiveShape(s); clear() the lastUuid is s.
C16_Clear ==
    /\ LET out == clear(State)
       IN /\ out.st.lastUuid = uuid
          /\ out.st.uuid = NULL
          /\ out.st.parentUuid = NULL
          /\ out.st.access = NULL
          /\ out.st.owners = << >>
          /\ out.st.trackers = << >>
          /\ out.st.auras = << >>
          /\ out.st.firstRealTrackerIndex = 0
          /\ out.st.firstRealAuraIndex = 0
          /\ out.calls = << >>
          /\ ~out.error
    /\ \A s \in Selectable : clear(setActiveShape(State, s).st).st.lastUuid = s

\* C16 witness: B was selected and clear() was called: nothing is selected,
\* lastUuid is B and the lists are empty.
C16_Witness ==
    /\ uuid = NULL
    /\ lastUuid = "B"
    /\ access = NULL
    /\ trackers = << >>
    /\ firstRealTrackerIndex = 0
    /\ calls = << >>

\* ------------------------------------------------ the gateway that echoes
\* most echoes the gateway delivers for one request of the UI
MaxDeliveries == 3

\* The requests of the UI: a mutation's name and its payload.
Requests(st) ==
    { [op |-> "setDefaultAccess", access |-> a] : a \in Accesses }
    \cup { [op |-> o, flag |-> b] :
             o \in {"setDefaultEditAccess", "setDefaultMovementAccess",
                    "setDefaultVisionAccess"},
             b \in BOOLEAN }
    \cup { [op |-> o, owner |-> w] : o \in {"addOwner", "updateOwner"}, w \in OwnerPayloads }
    \cup { [op |-> "removeOwner", user |-> u] : u \in Users }
    \cup { [op |-> "pushTracker", entry |-> t, shape |-> s] : t \in PushTrackers, s \in Shapes }
    \cup { [op |-> "pushAura", entry |-> a, shape |-> s] : a \in PushAuras, s \in Shapes }
    \cup { [op |-> "updateTracker", id |-> id, delta |-> d] :
             id \in TrackerIds(st), d \in Deltas }
    \cup { [op |-> "updateAura", id |-> id, delta |-> d] : id \in AuraIds(st), d \in Deltas }
    \cup { [op |-> "removeTracker", id |-> id] : id \in TrackerIds(st) }
    \cup { [op |-> "removeAura", id |-> id] : id \in AuraIds(st) }

\* the store's mutation that the request names, under the tag syncTo
Perform(st, e, syncTo) ==
    CASE e.op = "setDefaultAccess" -> setDefaultAccess(st, e.access, syncTo)
      [] e.op = "setDefaultEditAccess" -> setDefaultEditAccess(st, e.flag, syncTo)
      [] e.op = "setDefaultMovementAccess" -> setDefaultMovementAccess(st, e.flag, syncTo)
      [] e.op = "setDefaultVisionAccess" -> setDefaultVisionAccess(st, e.flag, syncTo)
      [] e.op = "addOwner" -> addOwner(st, e.owner, syncTo)
      [] e.op = "updateOwner" -> updateOwner(st, e.owner, syncTo)
      [] e.op = "removeOwner" -> removeOwner(st, e.user, syncTo)
      [] e.op = "pushTracker" -> pushTracker(st, e.entry, e.shape, syncTo)
      [] e.op = "updateTracker" -> updateTracker(st, e.id, e.delta, syncTo)
      [] e.op = "removeTracker" -> removeTracker(st, e.id, syncTo)
      [] e.op = "pushAura" -> pushAura(st, e.entry, e.shape, syncTo)
      [] e.op = "updateAura" -> updateAura(st, e.id, e.delta, syncTo)
      [] e.op = "removeAura" -> removeAura(st, e.id, syncTo)

\* The echo of the call that the request e made from st with outcome out: the
\* store's mutation that mirrors the call on the shape, to be delivered with
\* the tag SyncTo.UI.  updateDefaultOwner(access) comes back as
\* setDefaultAccess(access); the push of a promoted placeholder comes back as
\* the push of that entry; every other call comes back as the request itself.
EchoOf(st, e, out) ==
    LET call == out.calls[1]
    IN IF call.op = "updateDefaultOwner"
       THEN [op |-> "setDefaultAccess", access |-> out.st.access]
       ELSE IF e.op = "updateTracker" /\ call.op = "pushTracker"
       THEN [op |-> "pushTracker",
             entry |-> [uuid |-> e.id,
                        value |-> out.st.trackers[FindIndex(st.trackers, e.id) + 1].value],
             shape |-> call.shape]
       ELSE IF e.op = "updateAura" /\ call.op = "pushAura"
       THEN [op |-> "pushAura",
             entry |-> [uuid |-> e.id,
                        value |-> out.st.auras[FindIndex(st.auras, e.id) + 1].value],
             shape |-> call.shape]
       ELSE e

\* the echoes of an outcome's calls
Echoes(st, e, out) == IF out.calls = << >> THEN << >> ELSE << EchoOf(st, e, out) >>

\* the viewer selects a shape while the gateway is quiet
EchoSelect ==
    /\ pending = << >>
    /\ \E s \in Selectable : Assign(setActiveShape(State, s))
    /\ ops' = 0
    /\ pending' = << >>
    /\ forwarded' = 0
    /\ delivered' = 0
    /\ UNCHANGED << held, domain >>

\* The UI requests a mutation with a tag other than SyncTo.UI while the
\* gateway is quiet; the gateway answers the call made with at most one echo.
Request ==
    /\ pending = << >>
    /\ ops < MaxOps
    /\ \E e \in Requests(State), syncTo \in Genuine :
          LET out == Perform(State, e, syncTo)
          IN /\ Assign(out)
             /\ pending' \in { << >>, Echoes(State, e, out) }
             /\ forwarded' = Len(out.calls)
    /\ ops' = ops + 1
    /\ delivered' = 0
    /\ UNCHANGED << held, domain >>

\* The gateway delivers its oldest echo to the store with the tag SyncTo.UI;
\* a call the store makes in answer is echoed in its turn.
Deliver ==
    /\ pending # << >>
    /\ delivered < MaxDeliveries
    /\ LET e == Head(pending)
           out == Perform(State, e, "UI")
       IN /\ Assign(out)
          /\ pending' = Tail(pending) \o Echoes(State, e, out)
          /\ forwarded' = forwarded + Len(out.calls)
    /\ delivered' = delivered + 1
    /\ UNCHANGED << ops, held, domain >>

NextEcho ==
    \/ EchoSelect
    \/ Request
    \/ Deliver

\* the notification of the gateway is re-entrant: a pending echo is delivered
SpecEcho == Init /\ [][NextEcho]_vars /\ WF_vars(Deliver)

\* C17: no infinite forwarding loop.  With a gateway that answers each call
\* with at most one echo, in every chain of events that one request of the UI
\* starts: at most one call is made on a core shape, at most one echo is ever
\* pending and at most one is delivered, and the chain ends: a pending echo
\* leads to a state with no pending echo.
C17_NoForwardingLoop ==
    /\ [](forwarded <= 1 /\ Len(pending) <= 1 /\ delivered <= 1)
    /\ (pending # << >>) ~> (pending = << >>)

\* C17 witness: a request was forwarded, its echo was delivered, the mirror
\* was changed by it and nothing is pending.
C17_Witness ==
    /\ forwarded = 1
    /\ delivered = 1
    /\ pending = << >>
    /\ \E i, j \in 1..Len(trackers) : i # j /\ trackers[i].uuid = trackers[j].uuid

\* --------------------------------------- references shared with the core
\* `held` says of the mirror's objects (the _access object, the entries of
\* _owners, _trackers and _auras, position by position) whether the core
\* holds a reference to the same object.

\* no object of the lists of st is shared
NoneHeld(st) ==
    [access |-> FALSE,
     owners |-> [i \in 1..Len(st.owners) |-> FALSE],
     trackers |-> [i \in 1..Len(st.trackers) |-> FALSE],
     auras |-> [i \in 1..Len(st.auras) |-> FALSE]]

\* filter(o => o.user !== user) on the flags of the owner entries
FilterHeld(list, flags, user) ==
    LET kept == { i \in 1..Len(list) : list[i].user # user }
        nth(k) == CHOOSE i \in kept : Cardinality({ j \in kept : j <= i }) = k
    IN [k \in 1..Cardinality(kept) |-> flags[nth(k)]]

\* The flags after the request e with the tag syncTo from the fields st and
\* the flags h.  keeps: the callee on the core's side keeps the object it is
\* handed (as opposed to a copy of it), and the core passes its own object in
\* the payload of an echo.
\*   setDefaultAccess stores a copy, { ...data.access }, and hands that copy
\*     to shape.updateDefaultOwner;
\*   setDefaultEditAccess / MovementAccess / VisionAccess write this._access in
\*     place and hand it to shape.updateDefaultOwner;
\*   addOwner pushes data.owner itself and hands the same object to
\*     shape.addOwner;
\*   updateOwner assigns in place and hands a copy to shape.updateOwner;
\*   removeOwner filters;
\*   pushTracker / pushAura splice in a copy made by toUiTrackers / toUiAuras;
\*   updateTracker / updateAura assign in place; a promoted placeholder is
\*     handed to shape.pushTracker / pushAura and a new placeholder appended;
\*   removeTracker / removeAura splice out.
HeldAfter(st, h, e, syncTo, keeps) ==
    IF ~hasEditAccess(st) THEN h
    ELSE LET called == syncTo # "UI" /\ st.uuid \in UUIDMap
         IN CASE e.op = "setDefaultAccess" -> [h EXCEPT !.access = called /\ keeps]
              [] e.op \in {"setDefaultEditAccess", "setDefaultMovementAccess",
                           "setDefaultVisionAccess"} ->
                    [h EXCEPT !.access = h.access \/ (called /\ keeps)]
              [] e.op = "addOwner" ->
                    [h EXCEPT !.owners = Append(h.owners, keeps /\ (syncTo = "UI" \/ called))]
              [] e.op = "updateOwner" -> h
              [] e.op = "removeOwner" ->
                    [h EXCEPT !.owners = FilterHeld(st.owners, h.owners, e.user)]
              [] e.op = "pushTracker" ->
                    IF st.uuid = e.shape
                    THEN [h EXCEPT !.trackers = SpliceIn(h.trackers, Len(h.trackers) - 1, FALSE)]
                    ELSE IF st.parentUuid = e.shape
                    THEN [h EXCEPT !.trackers =
                             SpliceIn(h.trackers, st.firstRealTrackerIndex, FALSE)]
                    ELSE h
              [] e.op = "pushAura" ->
                    IF st.uuid = e.shape
                    THEN [h EXCEPT !.auras = SpliceIn(h.auras, Len(h.auras) - 1, FALSE)]
                    ELSE IF st.parentUuid = e.shape
                    THEN [h EXCEPT !.auras = SpliceIn(h.auras, st.firstRealAuraIndex, FALSE)]
                    ELSE h
              [] e.op = "updateTracker" ->
                    LET i == FindIndex(st.trackers, e.id)
                    IN IF i >= 0 /\ syncTo # "UI" /\ st.trackers[i + 1].temporary
                          /\ st.trackers[i + 1].shape \in UUIDMap
                       THEN [h EXCEPT !.trackers =
                                Append([h.trackers EXCEPT ![i + 1] = @ \/ keeps], FALSE)]
                       ELSE h
              [] e.op = "updateAura" ->
                    LET i == FindIndex(st.auras, e.id)
                    IN IF i >= 0 /\ syncTo # "UI" /\ st.auras[i + 1].temporary
                          /\ st.auras[i + 1].shape \in UUIDMap
                       THEN [h EXCEPT !.auras =
                                Append([h.auras EXCEPT ![i + 1] = @ \/ keeps], FALSE)]
                       ELSE h
              [] e.op = "removeTracker" ->
                    LET i == FindIndex(st.trackers, e.id)
                    IN IF i >= 0 THEN [h EXCEPT !.trackers = SpliceOut(h.trackers, i)] ELSE h
              [] e.op = "removeAura" ->
                    LET i == FindIndex(st.auras, e.id)
                    IN IF i >= 0 THEN [h EXCEPT !.auras = SpliceOut(h.auras, i)] ELSE h

\* The request e, performed from st, assigns in place to an object of the
\* mirror that the core holds too (flags h), and the assignment changes it.
WritesHeld(st, h, e, syncTo) ==
    /\ hasEditAccess(st)
    /\ CASE e.op \in {"setDefaultEditAccess", "setDefaultMovementAccess",
                      "setDefaultVisionAccess"} ->
                h.access /\ Perform(st, e, syncTo).st.access # st.access
         [] e.op = "updateOwner" ->
                LET i == OwnerIndex(st.owners, e.owner.user)
                IN i >= 0 /\ h.owners[i + 1]
                   /\ Perform(st, e, syncTo).st.owners[i + 1] # st.owners[i + 1]
         [] e.op = "updateTracker" ->
                LET i == FindIndex(st.trackers, e.id)
                IN i >= 0 /\ h.trackers[i + 1]
                   /\ ObjectAssign(st.trackers[i + 1], e.delta) # st.trackers[i + 1]
         [] e.op = "updateAura" ->
                LET i == FindIndex(st.auras, e.id)
                IN i >= 0 /\ h.auras[i + 1]
                   /\ ObjectAssign(st.auras[i + 1], e.delta) # st.auras[i + 1]
         [] OTHER -> FALSE

\* setActiveShape copies everything it reads: nothing is shared
AliasSelect ==
    /\ \E s \in Selectable :
          /\ Assign(setActiveShape(State, s))
          /\ held' = NoneHeld(setActiveShape(State, s).st)
    /\ ops' = 0
    /\ UNCHANGED << gateway, domain >>

\* a mutation with any tag; the core keeps the objects it is handed, or not
AliasMutate ==
    /\ ops < MaxOps
    /\ \E e \in Requests(State), syncTo \in SyncTo, keeps \in BOOLEAN :
          /\ Assign(Perform(State, e, syncTo))
          /\ held' = HeldAfter(State, held, e, syncTo, keeps)
    /\ ops' = ops + 1
    /\ UNCHANGED << gateway, domain >>

NextAlias ==
    \/ AliasSelect
    \/ AliasMutate

SpecAlias == Init /\ [][NextAlias]_vars

\* C18: the mirror is a copy, not a live reference.  From every reachable
\* state setActiveShape gives an access descriptor, owner entries and tracker
\* and aura entries equal by value to the shape's (and its parent's); and in
\* every reachable state no echo-tagged mutation changes an object that the
\* core holds too: with no call made, the shape's defaultAccess, owners,
\* trackers and auras stay as they are.
C18_MirrorIsCopy ==
    /\ \A s \in Selectable :
          LET new == setActiveShape(State, s).st
              parent == getCompositeParent(s)
              own == IF parent = NULL THEN 0 ELSE Len(ShapeTrackers(parent))
              owa == IF parent = NULL THEN 0 ELSE Len(ShapeAuras(parent))
          IN /\ new.access = ShapeDefaultAccess(s)
             /\ new.owners = ShapeOwners(s)
             /\ \A i \in 1..Len(ShapeTrackers(s)) :
                   /\ new.trackers[own + i].uuid = ShapeTrackers(s)[i].uuid
                   /\ new.trackers[own + i].value = ShapeTrackers(s)[i].value
             /\ \A i \in 1..Len(ShapeAuras(s)) :
                   /\ new.auras[owa + i].uuid = ShapeAuras(s)[i].uuid
                   /\ new.auras[owa + i].value = ShapeAuras(s)[i].value
    /\ \A e \in Requests(State) :
          /\ Perform(State, e, "UI").calls = << >>
          /\ ~WritesHeld(State, held, e, "UI")

\* ------------------------------------------- the shape as the core changes it
\* the data of shape s that the store mirrors
ShapeData(s) ==
    [access |-> ShapeDefaultAccess(s),
     owners |-> ShapeOwners(s),
     trackers |-> ShapeTrackers(s)]

\* The changes the core makes to the selected shape s with data dom, as the
\* requests that notify the store of them: a new default access, a new owner,
\* an update or the removal of an owner it has, a new tracker, an update or
\* the removal of a tracker it has.
DomainChanges(dom, s) ==
    { [op |-> "setDefaultAccess", access |-> a] : a \in Accesses }
    \cup { [op |-> "addOwner", owner |-> w] :
             w \in { p \in OwnerPayloads :
                       /\ DOMAIN p.access = AccessFields
                       /\ OwnerIndex(dom.owners, p.user) < 0 } }
    \cup { [op |-> "updateOwner", owner |-> w] :
             w \in { p \in OwnerPayloads :
                       /\ DOMAIN p.access = AccessFields
                       /\ OwnerIndex(dom.owners, p.user) >= 0 } }
    \cup { [op |-> "removeOwner", user |-> u] :
             u \in { v \in Users : OwnerIndex(dom.owners, v) >= 0 } }
    \cup { [op |-> "pushTracker", entry |-> t, shape |-> s] :
             t \in { p \in PushTrackers : FindIndex(dom.trackers, p.uuid) < 0 } }
    \cup { [op |-> "updateTracker", id |-> dom.trackers[i].uuid, delta |-> d] :
             i \in 1..Len(dom.trackers), d \in Deltas }
    \cup { [op |-> "removeTracker", id |-> dom.trackers[i].uuid] :
             i \in 1..Len(dom.trackers) }

\* the shape's data after the change
DomainApply(dom, c) ==
    CASE c.op = "setDefaultAccess" -> [dom EXCEPT !.access = c.access]
      [] c.op = "addOwner" -> [dom EXCEPT !.owners = Append(@, c.owner)]
      [] c.op = "updateOwner" ->
            [dom EXCEPT !.owners[OwnerIndex(dom.owners, c.owner.user) + 1] = c.owner]
      [] c.op = "removeOwner" ->
            [dom EXCEPT !.owners = SelectSeq(@, LAMBDA o : o.user # c.user)]
      [] c.op = "pushTracker" -> [dom EXCEPT !.trackers = Append(@, c.entry)]
      [] c.op = "updateTracker" ->
            [dom EXCEPT !.trackers[FindIndex(dom.trackers, c.id) + 1] =
                            ObjectAssign(@, c.delta)]
      [] c.op = "removeTracker" ->
            [dom EXCEPT !.trackers = SpliceOut(@, FindIndex(dom.trackers, c.id))]

\* the viewer selects a shape: the mirror is the snapshot of its data
SyncSelect ==
    /\ \E s \in Selectable :
          /\ Assign(setActiveShape(State, s))
          /\ domain' = ShapeData(s)
    /\ ops' = 0
    /\ UNCHANGED << gateway, held >>

\* the core changes the selected shape and notifies the store with SyncTo.UI
DomainChange ==
    /\ uuid # NULL
    /\ ops < MaxOps
    /\ \E c \in DomainChanges(domain, uuid) :
          /\ domain' = DomainApply(domain, c)
          /\ Assign(Perform(State, c, "UI"))
    /\ ops' = ops + 1
    /\ UNCHANGED << gateway, held >>

NextSync ==
    \/ SyncSelect
    \/ DomainChange

SpecSync == Init /\ [][NextSync]_vars

\* the entries of the selected shape in the mirror's tracker list, without
\* the placeholder and without the fields the UI adds
OwnTrackers ==
    LET own == SelectSeq(trackers, LAMBDA t : t.shape = uuid /\ ~t.temporary)
    IN [i \in 1..Len(own) |-> [uuid |-> own[i].uuid, value |-> own[i].value]]

\* C19: the mirror stays synchronized with the shape.  When every change the
\* core makes to the selected shape's default access, owners and trackers is
\* delivered to the store as an echo, then in every reachable state with a
\* selection, for every viewer, the mirror's default access, its owners (as a
\* set) and its own trackers equal the shape's.
C19_MirrorInSync ==
    uuid # NULL =>
        /\ access = domain.access
        /\ { owners[i] : i \in 1..Len(owners) } =
               { domain.owners[i] : i \in 1..Len(domain.owners) }
        /\ OwnTrackers = domain.trackers

\* the requests that can take edit access away: the default-access setters,
\* updateOwner and removeOwner
Revoking ==
    { [op |-> "setDefaultAccess", access |-> a] : a \in Accesses }
    \cup { [op |-> o, flag |-> FALSE] :
             o \in {"setDefaultEditAccess", "setDefaultMovementAccess",
                    "setDefaultVisionAccess"} }
    \cup { [op |-> "updateOwner", owner |-> w] : w \in OwnerPayloads }
    \cup { [op |-> "removeOwner", user |-> u] : u \in Users }

\* this step is a call of setActiveShape
IsSetActiveShape ==
    /\ ops' = 0
    /\ UUIDMap' = UUIDMap
    /\ uuid' \in Selectable
    /\ State' = setActiveShape(State, uuid').st

\* C20: the permission gate is evaluated on the state before the mutation.
\* In every reachable state where the viewer has edit access, a setter,
\* updateOwner or removeOwner whose outcome leaves the viewer without edit
\* access is applied (the mirror changes) and makes exactly one call on the
\* shape when its tag is not SyncTo.UI, none when it is; and once the viewer
\* has no edit access, no step other than setActiveShape gives it back.
C20_GateBeforeMutation ==
    /\ [](hasEditAccess(State) =>
            \A e \in Revoking, syncTo \in SyncTo :
                LET out == Perform(State, e, syncTo)
                IN ~hasEditAccess(out.st) =>
                       /\ out.st # State
                       /\ ~out.error
                       /\ Len(out.calls) = (IF syncTo = "UI" THEN 0 ELSE 1))
    /\ [][(~hasEditAccess(State) /\ ~IsSetActiveShape) => ~hasEditAccess(State)']_vars

\* C21: composite flag.  In every reachable state isComposite is true exactly
\* when the selection has a composite parent (parentUuid is set); so it is
\* false with no selection, after clear() and after setActiveShape on a shape
\* without a parent.
C21_CompositeFlag ==
    /\ isComposite(State) <=> (parentUuid # NULL)
    /\ ~isComposite(clear(State).st)
    /\ \A s \in Selectable :
          getCompositeParent(s) = NULL => ~isComposite(setActiveShape(State, s).st)

\* the operations on the tracker list, on the aura list, and on the default
\* access and the owner list
TrackerOps == {"pushTracker", "updateTracker", "removeTracker"}
AuraOps == {"pushAura", "updateAura", "removeAura"}
AccessOps == {"setDefaultAccess", "setDefaultEditAccess", "setDefaultMovementAccess",
              "setDefaultVisionAccess", "addOwner", "updateOwner", "removeOwner"}

\* C22: frame of the incremental mutations.  In every reachable state, for
\* every request and every tag: a tracker operation leaves the aura list,
\* firstRealAuraIndex, access and owners as they are; an aura operation leaves
\* the tracker list, firstRealTrackerIndex, access and owners as they are; an
\* access or owner operation leaves both lists and both cursors as they are;
\* and none of them changes uuid, parentUuid or lastUuid.
C22_Frame ==
    \A syncTo \in SyncTo : \A e \in Requests(State) :
        LET new == Perform(State, e, syncTo).st
        IN /\ new.uuid = uuid
           /\ new.parentUuid = parentUuid
           /\ new.lastUuid = lastUuid
           /\ e.op \in TrackerOps =>
                 /\ new.auras = auras
                 /\ new.firstRealAuraIndex = firstRealAuraIndex
                 /\ new.access = access
                 /\ new.owners = owners
           /\ e.op \in AuraOps =>
                 /\ new.trackers = trackers
                 /\ new.firstRealTrackerIndex = firstRealTrackerIndex
                 /\ new.access = access
                 /\ new.owners = owners
           /\ e.op \in AccessOps =>
                 /\ new.trackers = trackers
                 /\ new.firstRealTrackerIndex = firstRealTrackerIndex
                 /\ new.auras = auras
                 /\ new.firstRealAuraIndex = firstRealAuraIndex

\* C22 witness: B is selected and one tracker operation has changed its
\* tracker list, while the aura list, the aura cursor, access, owners and the
\* selection are those that setActiveShape(B) installed.
C22_Witness ==
    /\ uuid = "B"
    /\ ops = 1
    /\ LET sel == setActiveShape(State, "B").st
       IN /\ trackers # sel.trackers
          /\ auras = sel.auras
          /\ firstRealAuraIndex = sel.firstRealAuraIndex
          /\ access = sel.access
          /\ owners = sel.owners
          /\ parentUuid = sel.parentUuid
          /\ lastUuid = sel.lastUuid

====
